---- MODULE Spec2Model ----
(***************************************************************************)
(* The per-connection TCP engine of src/src/tcp.rs (struct Connection and  *)
(* its methods accept, connect, write, on_tick, on_packet and close) as a  *)
(* state machine.                                                          *)
(*                                                                         *)
(* u32 values.  TLC's integers are 32 bits wide and signed, so a u32 is    *)
(* held as its two's-complement reading: 0 .. 2^31-1 stand for themselves  *)
(* and -2^31 .. -1 stand for 2^31 .. 2^32-1 (0xFFFFFFFF is -1).  The       *)
(* operators wrapping_add, wrapping_sub and ULt compute exactly what the   *)
(* u32 operations compute, at the full width of 32 bits.                   *)
(*                                                                         *)
(* Time.  An Instant is a number of tenths of a second.  srtt (an f64 in   *)
(* the code) is held as the exact fraction num/den.                        *)
(*                                                                         *)
(* Bytes.  A byte is represented by its position in the stream it belongs  *)
(* to: the k-th byte the application enqueues is k (from 0), the byte the  *)
(* peer sends at sequence number s is s - (irs + 1).                       *)
(***************************************************************************)
EXTENDS Integers, Sequences, FiniteSets, TLC

VARIABLES
    conn,             \* the Connection
    nic,              \* the segments the last call handed to nic.send, in order
    now,              \* time::Instant::now()
    overflow_checks,  \* the build: TRUE when integer overflow panics (debug)
    panicked,         \* "" or the message of the panic that ended the engine
    ret,              \* what the last call returned: "Ok", "NotConnected" or "panic"
    app_written       \* how many bytes the application has enqueued so far

vars == <<conn, nic, now, overflow_checks, panicked, ret, app_written>>

----------------------------------------------------------------------------
(* Bounds of the model *)

\* the send window accept()/connect() install (1024 in the code, tcp.rs:174)
SndWnd == 2
\* bytes the application enqueues over the life of the connection
MaxBytes == 2
\* bytes the application enqueues in one write
MaxChunk == 2
\* payload bytes of one inbound segment
MaxSegLen == 1
\* the sequence numbers the peer uses: irs .. irs + MaxPeerSeq - 1
MaxPeerSeq == 3
\* how far snd.nxt may move from iss before the engine is no longer driven
MaxSndSeq == 4
\* the clock stops advancing here (tenths of a second)
MaxNow == 1000

----------------------------------------------------------------------------
(* u32 arithmetic *)

MinI32 == -2147483647 - 1

MaxI32 == 2147483647

wrapping_add(a, b) ==
    IF a >= 0 /\ b > MaxI32 - a THEN (a + MinI32) + (b + MinI32)
    ELSE IF a < 0 /\ b < MinI32 - a THEN (a - MinI32) + (b - MinI32)
    ELSE a + b

wrapping_sub(a, b) ==
    IF b = MinI32 THEN wrapping_add(a, MinI32) ELSE wrapping_add(a, -b)

\* a < b on u32 (the plain, unsigned order)
ULt(a, b) == IF (a < 0) = (b < 0) THEN a < b ELSE b < 0

UMin(a, b) == IF ULt(b, a) THEN b ELSE a

\* lhs.wrapping_sub(rhs) > (1 << 31)
wrapping_lt(lhs, rhs) ==
    LET d == wrapping_sub(lhs, rhs) IN d < 0 /\ d # MinI32

is_between_wrapped(start, x, end) ==
    wrapping_lt(start, x) /\ wrapping_lt(x, end)

----------------------------------------------------------------------------
(* Time *)

\* time::Duration::from_secs(1)
Second == 10

\* the initial srtt, time::Duration::from_secs(1 * 60)
InitialSrtt == [num |-> 60 * Second, den |-> 1]

\* srtt = 0.8 * srtt + (1.0 - 0.8) * sample
SrttUpdate(srtt, sample) ==
    [num |-> 4 * srtt.num + sample * srtt.den, den |-> 5 * srtt.den]

----------------------------------------------------------------------------
(* A call in progress: the connection, what it has sent, whether it panicked *)

Start(c) == [c |-> c, nic |-> <<>>, panic |-> ""]

Panic(r, msg) == [r EXCEPT !.panic = msg]

Insert(f, k, v) == [x \in (DOMAIN f) \cup {k} |-> IF x = k THEN v ELSE f[x]]

\* the payload buffer of one segment: buf.len() less the IP and TCP headers
MaxPayload == 1460

\* Connection::write(seq, limit)
write(r, seq, limit) ==
    LET c == r.c
        following_fin == c.closed_at # <<>> /\ seq = wrapping_add(c.closed_at[1], 1)
        offset == IF following_fin THEN 0 ELSE wrapping_sub(seq, c.send.una)
        lim == IF following_fin THEN 0 ELSE limit
        len == Len(c.unacked)
        max_data == UMin(lim, len - offset)
        payload_bytes == UMin(max_data, MaxPayload)
        payload == SubSeq(c.unacked, offset + 1, offset + payload_bytes)
        seq1 == wrapping_add(seq, payload_bytes)
        seq2 == IF c.tcp.syn THEN wrapping_add(seq1, 1) ELSE seq1
        next_seq == IF c.tcp.fin THEN wrapping_add(seq2, 1) ELSE seq2
        segment == [seq |-> seq, ack |-> c.recv.nxt, syn |-> c.tcp.syn,
                    fin |-> c.tcp.fin, ackf |-> c.tcp.ack, payload |-> payload]
    IN  IF r.panic # "" THEN r
        ELSE IF overflow_checks /\ ULt(c.recv.nxt, c.recv.irs)
            THEN Panic(r, "attempt to subtract with overflow")
        ELSE IF ULt(len, offset)
            THEN Panic(r, "range start index out of range for slice")
        ELSE [r EXCEPT
                !.c.tcp.syn = FALSE,
                !.c.tcp.fin = FALSE,
                !.c.send.nxt = IF wrapping_lt(@, next_seq) THEN next_seq ELSE @,
                !.c.timers.send_times = Insert(@, seq, now),
                !.nic = Append(@, segment)]

----------------------------------------------------------------------------
(* Construction *)

\* the Connection literal of accept() and connect(), before the SYN is written
NewConnection(seqn, window, ack_flag) ==
    [state |-> "SynRcvd",
     send |-> [iss |-> 0, una |-> 0, nxt |-> 0, wnd |-> SndWnd],
     recv |-> [irs |-> seqn, nxt |-> wrapping_add(seqn, 1), wnd |-> window],
     tcp |-> [syn |-> TRUE, ack |-> ack_flag, fin |-> FALSE],
     incoming |-> <<>>,
     unacked |-> <<>>,
     closed |-> FALSE,
     closed_at |-> <<>>,
     timers |-> [send_times |-> <<>>, srtt |-> InitialSrtt]]

\* Connection::accept, given a segment with SYN set
accept(seqn, window) ==
    LET r == Start(NewConnection(seqn, window, TRUE))
    IN  write(r, r.c.send.nxt, 0)

\* Connection::connect, given a segment with SYN set
connect(seqn, window) ==
    LET r == Start(NewConnection(seqn, window, FALSE))
    IN  write(r, r.c.send.nxt, 0)

----------------------------------------------------------------------------
(* Connection::on_tick *)

\* the retransmit branch of on_tick
Retransmit(r) ==
    LET c == r.c
        len == Len(c.unacked)
        resend == UMin(len, c.send.wnd)
        r1 == IF ULt(resend, c.send.wnd) /\ c.closed
              THEN [r EXCEPT !.c.tcp.fin = TRUE,
                             !.c.closed_at = <<wrapping_add(c.send.una, len)>>]
              ELSE r
    IN  IF resend = 0 THEN r1 ELSE write(r1, c.send.una, resend)

\* the new-data branch of on_tick
SendNew(r, nunacked_data, nunsent_data) ==
    LET c == r.c
        allowed == wrapping_sub(c.send.wnd, nunacked_data)
        send == UMin(nunsent_data, allowed)
        r1 == IF ULt(send, allowed) /\ c.closed /\ c.closed_at = <<>>
              THEN [r EXCEPT !.c.tcp.fin = TRUE,
                             !.c.closed_at =
                                 <<wrapping_add(c.send.una, Len(c.unacked))>>]
              ELSE r
    IN  IF nunsent_data = 0 /\ c.closed_at # <<>> THEN r
        ELSE IF overflow_checks /\ ULt(c.send.wnd, nunacked_data)
            THEN Panic(r, "attempt to subtract with overflow")
        ELSE IF allowed = 0 THEN r
        ELSE IF send = 0 THEN r1
        ELSE write(r1, c.send.nxt, send)

\* send_times.range(self.send.una..).next(): the least key at or after una
FirstSendTime(c) ==
    LET keys == {k \in DOMAIN c.timers.send_times : ~ULt(k, c.send.una)}
    IN  IF keys = {} THEN <<>>
        ELSE <<c.timers.send_times[
                 CHOOSE k \in keys : \A j \in keys : ~ULt(j, k)]>>

\* should_retransmit with || where the code has &&
should_retransmit_either(c) ==
    LET sent == FirstSendTime(c)
        waited_for == now - sent[1]
    IN  /\ sent # <<>>
        /\ \/ waited_for > Second
           \/ 2 * waited_for * c.timers.srtt.den > 3 * c.timers.srtt.num

should_retransmit(c) ==
    LET sent == FirstSendTime(c)
        waited_for == now - sent[1]
    IN  /\ sent # <<>>
        /\ waited_for > Second
        /\ 2 * waited_for * c.timers.srtt.den > 3 * c.timers.srtt.num

on_tick(r) ==
    LET c == r.c
        len == Len(c.unacked)
        nunacked_data ==
            wrapping_sub(IF c.closed_at # <<>> THEN c.closed_at[1] ELSE c.send.nxt,
                         c.send.una)
        nunsent_data == wrapping_sub(len, nunacked_data)
    IN  IF c.state \in {"FinWait2", "TimeWait", "Closed"} THEN r
        ELSE IF overflow_checks /\ ULt(len, nunacked_data)
            THEN Panic(r, "attempt to subtract with overflow")
        ELSE IF should_retransmit(c) THEN Retransmit(r)
        ELSE SendNew(r, nunacked_data, nunsent_data)

----------------------------------------------------------------------------
(* Connection::on_packet *)

\* the acceptability test with the clause on the segment's last sequence
\* number left out
okay_first_only(c, seg) ==
    LET slen == Len(seg.data) + (IF seg.fin THEN 1 ELSE 0) + (IF seg.syn THEN 1 ELSE 0)
        wend == wrapping_add(c.recv.nxt, c.recv.wnd)
        before == wrapping_sub(c.recv.nxt, 1)
    IN  IF c.recv.wnd = 0
        THEN slen = 0 /\ seg.seqn = c.recv.nxt
        ELSE is_between_wrapped(before, seg.seqn, wend)

\* the acceptability test of on_packet (RFC 793 S3.3)
okay(c, seg) ==
    LET seqn == seg.seqn
        slen == Len(seg.data) + (IF seg.fin THEN 1 ELSE 0) + (IF seg.syn THEN 1 ELSE 0)
        wend == wrapping_add(c.recv.nxt, c.recv.wnd)
        before == wrapping_sub(c.recv.nxt, 1)
    IN  IF slen = 0
        THEN IF c.recv.wnd = 0
             THEN seqn = c.recv.nxt
             ELSE is_between_wrapped(before, seqn, wend)
        ELSE IF c.recv.wnd = 0
             THEN FALSE
             ELSE \/ is_between_wrapped(before, seqn, wend)
                  \/ is_between_wrapped(before, wrapping_add(seqn, slen - 1), wend)

\* send_times.retain(..): the entries strictly between una and ackn are removed,
\* in the order of the map's keys, each one feeding srtt
RECURSIVE RetainScan(_, _, _, _)
RetainScan(timers, todo, una, ackn) ==
    IF todo = {} THEN timers
    ELSE LET seq == CHOOSE k \in todo : \A j \in todo : ~ULt(j, k)
             sent == timers.send_times[seq]
         IN  IF is_between_wrapped(una, seq, ackn)
             THEN RetainScan(
                      [send_times |-> [k \in (DOMAIN timers.send_times) \ {seq}
                                          |-> timers.send_times[k]],
                       srtt |-> SrttUpdate(timers.srtt, now - sent)],
                      todo \ {seq}, una, ackn)
             ELSE RetainScan(timers, todo \ {seq}, una, ackn)

Drain(q, n) == SubSeq(q, n + 1, Len(q))

\* an ACK in SynRcvd
AckSynRcvd(c, ackn) ==
    IF c.state = "SynRcvd"
       /\ is_between_wrapped(wrapping_sub(c.send.una, 1), ackn,
                             wrapping_add(c.send.nxt, 1))
    THEN [c EXCEPT !.state = "Estab"]
    ELSE c

\* the ACK block without its range test: every ackn prunes and moves snd.una
AckData_unguarded(c, ackn) ==
    IF c.state \in {"Estab", "FinWait1", "FinWait2"}
    THEN LET data_start == IF c.send.una = c.send.iss
                           THEN wrapping_add(c.send.una, 1)
                           ELSE c.send.una
             acked_data_end == UMin(wrapping_sub(ackn, data_start), Len(c.unacked))
             c1 == IF c.unacked # <<>>
                   THEN [c EXCEPT
                           !.unacked = Drain(@, acked_data_end),
                           !.timers = RetainScan(@, DOMAIN @.send_times,
                                                 c.send.una, ackn)]
                   ELSE c
         IN  [c1 EXCEPT !.send.una = ackn]
    ELSE c

\* an ACK in Estab, FinWait1 or FinWait2
AckData(c, ackn) ==
    IF c.state \in {"Estab", "FinWait1", "FinWait2"}
       /\ is_between_wrapped(c.send.una, ackn, wrapping_add(c.send.nxt, 1))
    THEN LET data_start == IF c.send.una = c.send.iss
                           THEN wrapping_add(c.send.una, 1)
                           ELSE c.send.una
             acked_data_end == UMin(wrapping_sub(ackn, data_start), Len(c.unacked))
             c1 == IF c.unacked # <<>>
                   THEN [c EXCEPT
                           !.unacked = Drain(@, acked_data_end),
                           !.timers = RetainScan(@, DOMAIN @.send_times,
                                                 c.send.una, ackn)]
                   ELSE c
         IN  [c1 EXCEPT !.send.una = ackn]
    ELSE c

\* "receive ack for our FIN"
AckFin(c) ==
    LET fin_acked == c.closed_at # <<>>
                     /\ c.send.una = wrapping_add(c.closed_at[1], 1)
    IN  IF c.state = "FinWait1" /\ fin_acked THEN [c EXCEPT !.state = "FinWait2"]
        ELSE IF c.state = "Closing" /\ fin_acked THEN [c EXCEPT !.state = "TimeWait"]
        ELSE IF c.state = "LastAck" /\ fin_acked THEN [c EXCEPT !.state = "Closed"]
        ELSE c

\* the payload of an accepted segment
ReceiveData(r, seg) ==
    LET c == r.c
        n == Len(seg.data)
        unread0 == wrapping_sub(c.recv.nxt, seg.seqn)
        unread_data_at == IF ULt(n, unread0) THEN 0 ELSE unread0
    IN  IF seg.data = <<>> \/ c.state \notin {"Estab", "FinWait1", "FinWait2"} THEN r
        ELSE IF ULt(n, unread0) /\ unread0 # n + 1
            THEN Panic(r, "assertion failed: unread_data_at == data.len() + 1")
        ELSE write([r EXCEPT
                      !.c.incoming = @ \o SubSeq(seg.data, unread_data_at + 1, n),
                      !.c.recv.nxt = wrapping_add(seg.seqn, n)],
                   c.send.nxt, 0)

\* the FIN of an accepted segment
ReceiveFin(r, seg) ==
    LET c == r.c
        next == CASE c.state = "FinWait2" -> "TimeWait"
                  [] c.state = "FinWait1" -> "Closing"
                  [] c.state = "Estab" -> "TimeWait"
                  [] OTHER -> ""
        r1 == write([r EXCEPT !.c.recv.nxt = wrapping_add(@, 1)], c.send.nxt, 0)
    IN  IF ~seg.fin \/ r.panic # "" THEN r
        ELSE IF next = "" THEN Panic(r, "not implemented")
        ELSE IF r1.panic # "" THEN r1
        ELSE [r1 EXCEPT !.c.state = next]

on_packet(r, seg) ==
    LET c == r.c
        r1 == [r EXCEPT !.c = AckFin(AckData(AckSynRcvd(c, seg.ackn), seg.ackn))]
        r2 == ReceiveData(r1, seg)
    IN  IF ~okay(c, seg) THEN write(r, c.send.nxt, 0)
        ELSE IF ~seg.ack
            THEN IF ~seg.syn THEN r
                 ELSE IF seg.data # <<>>
                     THEN Panic(r, "assertion failed: data.is_empty()")
                 ELSE [r EXCEPT !.c.recv.nxt = wrapping_add(seg.seqn, 1)]
        ELSE ReceiveFin(r2, seg)

----------------------------------------------------------------------------
(* Connection::availability *)

is_rcv_closed(c) ==
    c.state \in {"TimeWait", "CloseWait", "LastAck", "Closed", "Closing"}

is_snd_closed(c) ==
    c.state \in {"FinWait1", "FinWait2", "Closing", "TimeWait", "LastAck", "Closed"}

\* the Available flags, as a set
availability(c) ==
    (IF is_rcv_closed(c) \/ c.incoming # <<>> THEN {"READ"} ELSE {})
    \cup (IF is_snd_closed(c) \/ c.unacked # <<>> THEN {"WRITE"} ELSE {})

----------------------------------------------------------------------------

(* Connection::close *)

\* close() that raises the flag only where it succeeds
close_flag_on_success(c) ==
    LET c1 == [c EXCEPT !.closed = TRUE]
    IN  CASE c.state \in {"SynRcvd", "Estab"} ->
                [c |-> [c1 EXCEPT !.state = "FinWait1"], ret |-> "Ok"]
          [] c.state = "CloseWait" ->
                [c |-> [c1 EXCEPT !.state = "LastAck"], ret |-> "Ok"]
          [] c.state \in {"FinWait1", "FinWait2", "Closing", "LastAck"} ->
                [c |-> c1, ret |-> "Ok"]
          [] OTHER -> [c |-> c, ret |-> "NotConnected"]

close(c) ==
    LET c1 == [c EXCEPT !.closed = TRUE]
    IN  CASE c.state \in {"SynRcvd", "Estab"} ->
                [c |-> [c1 EXCEPT !.state = "FinWait1"], ret |-> "Ok"]
          [] c.state = "CloseWait" ->
                [c |-> [c1 EXCEPT !.state = "LastAck"], ret |-> "Ok"]
          [] c.state \in {"FinWait1", "FinWait2", "Closing", "LastAck"} ->
                [c |-> c1, ret |-> "Ok"]
          [] OTHER -> [c |-> c1, ret |-> "NotConnected"]

----------------------------------------------------------------------------
(* The inputs *)

\* the ways a connection comes to be: the constructor, the SYN it is given
\* (sequence number, window) and the build.  -3 is 0xFFFFFFFD: the peer's
\* sequence numbers wrap after two more.  No SYN here has the sequence number
\* 0xFFFFFFFF, the one value at which sequence_number() + 1 overflows.
Worlds ==
    {[ctor |-> "accept", seqn |-> 1000, window |-> 2, overflow_checks |-> FALSE],
     [ctor |-> "accept", seqn |-> 1000, window |-> 0, overflow_checks |-> FALSE],
     [ctor |-> "connect", seqn |-> -3, window |-> 2, overflow_checks |-> TRUE]}

\* how long the clock may jump between two calls (tenths of a second)
Delays == {1000}

\* the n bytes the peer sends from sequence number seqn on
PeerData(c, seqn, n) ==
    [i \in 1..n |-> wrapping_sub(wrapping_add(seqn, i - 1),
                                 wrapping_add(c.recv.irs, 1))]

SeqChoices(c) ==
    {wrapping_sub(c.recv.nxt, 1), c.recv.nxt, wrapping_add(c.recv.nxt, 1)}

\* acknowledgment numbers around snd.una and snd.nxt, and the one that
\* acknowledges our FIN
AckChoices(c) ==
    {wrapping_sub(c.send.una, 1), c.send.una, wrapping_add(c.send.una, 1),
     c.send.nxt, wrapping_add(c.send.nxt, 1)}
    \cup {wrapping_add(c.closed_at[i], 1) : i \in DOMAIN c.closed_at}

\* the shapes of an inbound segment: flags and payload length
Shapes ==
    {[syn |-> FALSE, fin |-> f, ack |-> TRUE, n |-> n] :
        f \in BOOLEAN, n \in 0..MaxSegLen}
    \cup {[syn |-> TRUE, fin |-> FALSE, ack |-> k, n |-> 0] : k \in BOOLEAN}
    \cup {[syn |-> FALSE, fin |-> FALSE, ack |-> FALSE, n |-> 0],
          [syn |-> FALSE, fin |-> TRUE, ack |-> FALSE, n |-> MaxSegLen],
          [syn |-> TRUE, fin |-> FALSE, ack |-> FALSE, n |-> MaxSegLen]}

SegLen(h) == h.n + (IF h.fin THEN 1 ELSE 0) + (IF h.syn THEN 1 ELSE 0)

\* the inbound segments tried in a state: the peer uses no sequence number
\* MaxPeerSeq or more beyond irs
Segments(c) ==
    {[seqn |-> p[1], ackn |-> IF p[2].ack THEN a ELSE 0,
      syn |-> p[2].syn, fin |-> p[2].fin,
      ack |-> p[2].ack, data |-> PeerData(c, p[1], p[2].n)] :
        a \in AckChoices(c),
        p \in {q \in SeqChoices(c) \X Shapes :
                 \/ SegLen(q[2]) = 0
                 \/ ~ULt(MaxPeerSeq,
                         wrapping_sub(wrapping_add(q[1], SegLen(q[2])), c.recv.irs))}}

Driven ==
    /\ panicked = ""
    /\ ~ULt(MaxSndSeq, wrapping_sub(conn.send.nxt, conn.send.iss))

----------------------------------------------------------------------------
(* The state machine *)

Finish(r) ==
    /\ conn' = r.c
    /\ nic' = r.nic
    /\ panicked' = r.panic
    /\ ret' = IF r.panic # "" THEN "panic" ELSE "Ok"

Init ==
    /\ now = 0
    /\ app_written = 0
    /\ \E w \in Worlds :
          LET r == IF w.ctor = "accept" THEN accept(w.seqn, w.window)
                   ELSE connect(w.seqn, w.window)
          IN  /\ overflow_checks = w.overflow_checks
              /\ conn = r.c
              /\ nic = r.nic
              /\ panicked = r.panic
              /\ ret = "Ok"

OnPacket ==
    /\ Driven
    /\ \E seg \in Segments(conn) : Finish(on_packet(Start(conn), seg))
    /\ UNCHANGED <<now, overflow_checks, app_written>>

OnTick ==
    /\ Driven
    /\ Finish(on_tick(Start(conn)))
    /\ UNCHANGED <<now, overflow_checks, app_written>>

Close ==
    /\ Driven
    /\ LET res == close(conn)
       IN  /\ conn' = res.c
           /\ ret' = res.ret
    /\ nic' = <<>>
    /\ UNCHANGED <<now, overflow_checks, panicked, app_written>>

\* the application appends n bytes to unacked
Enqueue ==
    /\ Driven
    /\ \E n \in 1..MaxChunk :
          /\ app_written + n <= MaxBytes
          /\ conn' = [conn EXCEPT
                        !.unacked = @ \o [i \in 1..n |-> app_written + i - 1]]
          /\ app_written' = app_written + n
    /\ nic' = <<>>
    /\ ret' = "Ok"
    /\ UNCHANGED <<now, overflow_checks, panicked>>

\* the application drains a prefix of incoming
Dequeue ==
    /\ Driven
    /\ \E n \in 1..Len(conn.incoming) :
          conn' = [conn EXCEPT !.incoming = Drain(@, n)]
    /\ nic' = <<>>
    /\ ret' = "Ok"
    /\ UNCHANGED <<now, overflow_checks, panicked, app_written>>

TimePasses ==
    /\ panicked = ""
    /\ \E d \in Delays :
          /\ now + d <= MaxNow
          /\ now' = now + d
    /\ UNCHANGED <<conn, nic, overflow_checks, panicked, ret, app_written>>

Next ==
    \/ OnPacket
    \/ OnTick
    \/ Close
    \/ Enqueue
    \/ Dequeue
    \/ TimePasses

Spec == Init /\ [][Next]_vars

----------------------------------------------------------------------------
(* ACK processing anywhere in the sequence space.  A connection that has    *)
(* sent n bytes since its SYN was acknowledged has snd.una = iss + 1 + n    *)
(* mod 2^32: after 2^32 - 1 bytes snd.una is iss again, and just before     *)
(* that the range snd.una .. snd.nxt straddles the wrap.  AckSpec starts    *)
(* from such connections and hands them ACK segments.                       *)

\* where snd.una may stand: 0xFFFFFFFE, 0xFFFFFFFF, 0 (= iss, a whole turn
\* after the SYN was acknowledged), 1 and 2
UnaChoices == {-2, -1, 0, 1, 2}

\* a synchronized connection with its SYN acknowledged: sent of the len bytes
\* of unacked are in flight from una on, and with fin our FIN is in flight
\* behind them
AckConn(st, una, sent, len, fin) ==
    [state |-> st,
     send |-> [iss |-> 0, una |-> una,
               nxt |-> wrapping_add(una, sent + (IF fin THEN 1 ELSE 0)),
               wnd |-> SndWnd],
     recv |-> [irs |-> 1000, nxt |-> 1001, wnd |-> 2],
     tcp |-> [syn |-> FALSE, ack |-> TRUE, fin |-> FALSE],
     incoming |-> <<>>,
     unacked |-> [i \in 1..len |-> wrapping_sub(wrapping_add(una, i - 1), 1)],
     closed |-> fin,
     closed_at |-> IF fin THEN <<wrapping_add(una, len)>> ELSE <<>>,
     timers |-> [send_times |-> IF sent + (IF fin THEN 1 ELSE 0) > 0
                                THEN Insert(<<>>, una, 0) ELSE <<>>,
                 srtt |-> InitialSrtt]]

AckStates ==
    {AckConn("Estab", una, p[1], p[2], FALSE) :
        una \in UnaChoices,
        p \in {q \in (0..SndWnd) \X (0..(SndWnd + 1)) : q[1] <= q[2]}}
    \cup {AckConn("FinWait1", una, len, len, TRUE) :
            una \in UnaChoices, len \in 0..(SndWnd - 1)}

\* bare ACK segments at rcv.nxt
BareAcks(c) ==
    {[seqn |-> c.recv.nxt, ackn |-> a, syn |-> FALSE, fin |-> FALSE,
      ack |-> TRUE, data |-> <<>>] :
        a \in AckChoices(c) \cup {wrapping_add(c.send.una, 2)}}

AckInit ==
    /\ now = 0
    /\ app_written = 0
    /\ overflow_checks \in BOOLEAN
    /\ conn \in AckStates
    /\ nic = <<>>
    /\ panicked = ""
    /\ ret = "Ok"

AckArrives ==
    /\ panicked = ""
    /\ \E seg \in BareAcks(conn) : Finish(on_packet(Start(conn), seg))
    /\ UNCHANGED <<now, overflow_checks, app_written>>

AckNext == AckArrives

AckSpec == AckInit /\ [][AckNext]_vars

----------------------------------------------------------------------------
(* The retransmission timer.  TickSpec lets the clock move by a little more *)
(* than a second as well as by more than 1.5 * srtt, between ticks, writes, *)
(* close() and bare ACKs.                                                   *)

\* the instants at which TickSpec looks at the connection: 1.1 s and 100 s
\* after accept (tenths of a second)
TickTimes == {11, 1000}

TickTimePasses ==
    /\ panicked = ""
    /\ \E t \in TickTimes :
          /\ now < t
          /\ now' = t
    /\ UNCHANGED <<conn, nic, overflow_checks, panicked, ret, app_written>>

TickAck ==
    /\ Driven
    /\ \E seg \in BareAcks(conn) : Finish(on_packet(Start(conn), seg))
    /\ UNCHANGED <<now, overflow_checks, app_written>>

TickNext ==
    \/ OnTick
    \/ Enqueue
    \/ Close
    \/ TickAck
    \/ TickTimePasses

\* the connection accept() returns for a SYN with sequence number 1000
TickInit ==
    /\ now = 0
    /\ app_written = 0
    /\ overflow_checks \in BOOLEAN
    /\ LET r == accept(1000, 2)
       IN  conn = r.c /\ nic = r.nic /\ panicked = r.panic
    /\ ret = "Ok"

TickSpec == TickInit /\ [][TickNext]_vars

----------------------------------------------------------------------------
(* The receive window anywhere in the sequence space.  RcvSpec starts from  *)
(* established connections whose rcv.nxt stands before, at and after the    *)
(* wrap and at 2^31, with windows 0, small and the largest a u16 holds, and *)
(* hands them segments around both edges of the window.                     *)

\* initial receive sequence numbers: 0xFFFFFFFD, 0xFFFFFFFE, 0xFFFFFFFF, 1000
\* and 2^31 - 2
IrsChoices == {-3, -2, -1, 1000, MaxI32 - 1}

\* receive windows (tcp_h.window_size() is a u16)
WndChoices == {0, 1, 2, 65535}

RcvConn(irs, wnd) ==
    [AckConn("Estab", 1, 0, 0, FALSE) EXCEPT
        !.recv = [irs |-> irs, nxt |-> wrapping_add(irs, 1), wnd |-> wnd]]

\* the longest payload RcvSpec sends
MaxRcvLen == 2

\* how far rcv.nxt may move from irs + 1 before RcvSpec stops
MaxRcvAdvance == 2

\* sequence numbers around rcv.nxt and around rcv.nxt + rcv.wnd
RcvSeqChoices(c) ==
    {wrapping_add(c.recv.nxt, k) : k \in -3..1}
    \cup {wrapping_add(wrapping_add(c.recv.nxt, c.recv.wnd), k) : k \in -3..1}

RcvSegments(c) ==
    {[seqn |-> s, ackn |-> c.send.una, syn |-> h[1], fin |-> h[2],
      ack |-> TRUE, data |-> PeerData(c, s, h[3])] :
        s \in RcvSeqChoices(c),
        h \in {FALSE} \X BOOLEAN \X (0..MaxRcvLen) \cup {<<TRUE, FALSE, 0>>}}

RcvInit ==
    /\ now = 0
    /\ app_written = 0
    /\ overflow_checks \in BOOLEAN
    /\ conn \in {RcvConn(irs, wnd) : irs \in IrsChoices, wnd \in WndChoices}
    /\ nic = <<>>
    /\ panicked = ""
    /\ ret = "Ok"

RcvPacket ==
    /\ panicked = ""
    /\ ~ULt(MaxRcvAdvance,
            wrapping_sub(conn.recv.nxt, wrapping_add(conn.recv.irs, 1)))
    /\ \E seg \in RcvSegments(conn) : Finish(on_packet(Start(conn), seg))
    /\ UNCHANGED <<now, overflow_checks, app_written>>

RcvNext == RcvPacket

RcvSpec == RcvInit /\ [][RcvNext]_vars

----------------------------------------------------------------------------
(* Properties *)

\* the step is on_packet(seg), and it returned
Processed(seg) ==
    /\ Driven
    /\ LET r == on_packet(Start(conn), seg)
       IN  /\ r.panic = ""
           /\ conn' = r.c
           /\ nic' = r.nic
           /\ panicked' = ""

\* seg passes the acceptability test and carries ACK
Acceptable(seg) == okay(conn, seg) /\ seg.ack

\* our FIN has a sequence number and a segment carrying it has been written
FinEmitted(c) ==
    /\ c.closed_at # <<>>
    /\ ~c.tcp.fin
    /\ ~wrapping_lt(c.send.nxt, wrapping_add(c.closed_at[1], 1))

AcksOurFin(c, seg) ==
    c.closed_at # <<>> /\ seg.ackn = wrapping_add(c.closed_at[1], 1)

\* the step is close()
CloseCalled ==
    /\ Driven
    /\ conn' = close(conn).c
    /\ ret' = close(conn).ret
    /\ nic' = <<>>

\* the connection is as the constructor ctor returned it
Created(ctor) ==
    \E w \in Worlds :
        /\ w.ctor = ctor
        /\ LET r == IF ctor = "accept" THEN accept(w.seqn, w.window)
                    ELSE connect(w.seqn, w.window)
           IN  conn = r.c /\ nic = r.nic

\* the connection was made by accept(): only accept() sets the ACK flag
ByAccept(c) == c.tcp.ack

HasFin(segments) == \E i \in DOMAIN segments : segments[i].fin

\* nunacked_data of on_tick: what is in flight, the FIN left out
InFlight(c) ==
    wrapping_sub(IF c.closed_at # <<>> THEN c.closed_at[1] ELSE c.send.nxt,
                 c.send.una)

\* C1: simultaneous close.  A connection in FinWait1 whose FIN is out and not
\* yet acknowledged goes to Closing on an acceptable peer FIN, and a
\* connection in Closing goes to TimeWait on an acceptable ACK of our FIN.
C1_SimultaneousClose ==
    [][(conn.state \in {"FinWait1", "Closing"} /\ FinEmitted(conn)) =>
          \A seg \in Segments(conn) :
              Processed(seg) /\ Acceptable(seg) =>
                  /\ (conn.state = "FinWait1" /\ seg.fin /\ ~AcksOurFin(conn, seg))
                     => conn'.state = "Closing"
                  /\ (conn.state = "Closing" /\ ~seg.fin /\ AcksOurFin(conn, seg))
                     => conn'.state = "TimeWait"]_vars

\* C2: passive close.  Estab, the SYN acknowledged, goes to CloseWait on an
\* acceptable peer FIN, CloseWait goes to LastAck on close(), and LastAck
\* goes to Closed on the ACK of our FIN.
C2_PassiveClose ==
    [][(conn.state \in {"Estab", "CloseWait", "LastAck"}) =>
          /\ \A seg \in Segments(conn) :
                Processed(seg) /\ Acceptable(seg) =>
                    /\ (/\ conn.state = "Estab"
                        /\ conn.send.una # conn.send.iss
                        /\ seg.fin)
                       => conn'.state = "CloseWait"
                    /\ (/\ conn.state = "LastAck"
                        /\ FinEmitted(conn)
                        /\ ~seg.fin
                        /\ AcksOurFin(conn, seg))
                       => conn'.state = "Closed"
          /\ (conn.state = "CloseWait" /\ CloseCalled)
             => conn'.state = "LastAck"]_vars

\* C3: active open.  A connection made by connect() is in SynSent and has
\* sent a SYN without ACK, and it goes from SynSent to Estab on the peer's
\* SYN+ACK.
C3_ActiveOpen ==
    /\ [](Created("connect") =>
             /\ conn.state = "SynSent"
             /\ Len(nic) = 1
             /\ nic[1].syn
             /\ ~nic[1].ackf)
    /\ [][(~ByAccept(conn) /\ conn.state = "SynSent") =>
             \A seg \in Segments(conn) :
                 (/\ Processed(seg)
                  /\ Acceptable(seg)
                  /\ seg.syn
                  /\ seg.ackn = wrapping_add(conn.send.iss, 1))
                 => conn'.state = "Estab"]_vars

\* C4: passive handshake.  A connection made by accept() is in SynRcvd with
\* snd.una = iss and snd.nxt = iss + 1; it leaves SynRcvd for Estab only on a
\* segment whose ackn is iss + 1; so in Estab snd.una is never iss.
C4_PassiveHandshake ==
    /\ [](Created("accept") =>
             /\ conn.state = "SynRcvd"
             /\ conn.send.una = conn.send.iss
             /\ conn.send.nxt = wrapping_add(conn.send.iss, 1))
    /\ [][(ByAccept(conn) /\ conn.state = "SynRcvd" /\ conn'.state = "Estab") =>
             \E seg \in Segments(conn) :
                 /\ Processed(seg)
                 /\ seg.ack
                 /\ seg.ackn = wrapping_add(conn.send.iss, 1)]_vars
    /\ [](ByAccept(conn) /\ conn.state = "Estab"
             => conn.send.una # conn.send.iss)

\* the FIN fits in the send window behind everything that is queued
WindowHasRoom(c) == Len(c.unacked) < c.send.wnd

\* C5: in Estab with the SYN acknowledged and room in the send window,
\* close() succeeds and sends nothing, and the on_tick that follows it sends
\* a segment with FIN, whatever unacked holds.
C5_FinOnNextTick ==
    (/\ panicked = ""
     /\ conn.state = "Estab"
     /\ conn.send.una # conn.send.iss
     /\ WindowHasRoom(conn))
    => LET k == close(conn)
           r == on_tick(Start(k.c))
       IN  /\ k.ret = "Ok"
           /\ r.panic = ""
           /\ HasFin(r.nic)

\* the sequence number of the byte enqueued at stream position k
SeqOf(c, k) == wrapping_add(wrapping_add(c.send.iss, 1), k)

\* C6: on_tick gives closed_at the value snd.una + |unacked|; FinWait1 with
\* its FIN out goes to FinWait2 on an ACK of closed_at + 1; and in FinWait2
\* closed_at is set, snd.una is closed_at + 1 and unacked holds no byte whose
\* sequence number is before the FIN's.
C6_FinAcknowledged ==
    /\ [][(conn.closed_at = <<>> /\ conn'.closed_at # <<>>) =>
             conn'.closed_at =
                 <<wrapping_add(conn.send.una, Len(conn.unacked))>>]_vars
    /\ [][(conn.state = "FinWait1" /\ FinEmitted(conn)) =>
             \A seg \in Segments(conn) :
                 (/\ Processed(seg)
                  /\ Acceptable(seg)
                  /\ ~seg.fin
                  /\ AcksOurFin(conn, seg))
                 => conn'.state = "FinWait2"]_vars
    /\ [](conn.state = "FinWait2" =>
             /\ conn.closed_at # <<>>
             /\ conn.send.una = wrapping_add(conn.closed_at[1], 1)
             /\ \A i \in DOMAIN conn.unacked :
                   ~wrapping_lt(SeqOf(conn, conn.unacked[i]),
                                conn.closed_at[1]))

\* C7: closed_at, once set, keeps its value.
C7_ClosedAtStable ==
    [][conn.closed_at # <<>> => conn'.closed_at = conn.closed_at]_vars

\* C8: after accept and after every call that returns, unacked holds at
\* least as many bytes as are in flight, so |unacked| - nunacked in on_tick
\* does not underflow.
C8_UnackedCoversInFlight ==
    panicked = "" => ~ULt(Len(conn.unacked), InFlight(conn))

\* C9: iss <= snd.una <= snd.nxt <= snd.una + snd.wnd, in the wrap-safe order.
C9_SendSpaceOrdered ==
    panicked = "" =>
        /\ ~wrapping_lt(conn.send.una, conn.send.iss)
        /\ ~wrapping_lt(conn.send.nxt, conn.send.una)
        /\ ~wrapping_lt(wrapping_add(conn.send.una, conn.send.wnd), conn.send.nxt)

\* the stream position of the byte that belongs at sequence number s
PositionAt(c, s) == wrapping_sub(s, wrapping_add(c.send.iss, 1))

\* a step removed the first byte of unacked
Left(c, d) == Len(c.unacked) > 0 /\ (d.unacked = <<>> \/ d.unacked[1] # c.unacked[1])

\* C10: every payload byte sent at sequence number s is the byte enqueued at
\* stream position s - (iss + 1), and a byte leaves unacked only when an ACK
\* that covers its sequence number is processed.
C10_BytesInPlace ==
    /\ [](\A i \in DOMAIN nic : \A j \in DOMAIN nic[i].payload :
             nic[i].payload[j]
                 = PositionAt(conn, wrapping_add(nic[i].seq, j - 1)))
    /\ [][Left(conn, conn') =>
             \E seg \in Segments(conn) :
                 /\ Processed(seg)
                 /\ seg.ack
                 /\ wrapping_lt(wrapping_add(conn.send.iss,
                                             wrapping_add(conn.unacked[1], 1)),
                                seg.ackn)]_vars

\* ackn is in (snd.una, snd.nxt] in the wrap-safe order
InAckRange(c, ackn) ==
    wrapping_lt(c.send.una, ackn) /\ ~wrapping_lt(c.send.nxt, ackn)

\* C11: with the SYN acknowledged, wherever snd.una stands in the sequence
\* space, an ACK in Estab, FinWait1 or FinWait2 with ackn in (snd.una, snd.nxt]
\* drains min(ackn - snd.una, |unacked|) bytes from the front of unacked and
\* sets snd.una to ackn.
C11_AckDrains ==
    (panicked = "" /\ conn.state \in {"Estab", "FinWait1", "FinWait2"}) =>
        \A seg \in BareAcks(conn) :
            InAckRange(conn, seg.ackn) =>
                LET r == on_packet(Start(conn), seg)
                    n == UMin(wrapping_sub(seg.ackn, conn.send.una),
                              Len(conn.unacked))
                IN  /\ r.panic = ""
                    /\ r.c.send.una = seg.ackn
                    /\ r.c.unacked = Drain(conn.unacked, n)

\* the time waited since the earliest send time at or after snd.una exceeds
\* one second and exceeds 1.5 * srtt
WaitedLongEnough(c) ==
    LET sent == FirstSendTime(c)
    IN  /\ sent # <<>>
        /\ now - sent[1] > Second
        /\ 2 * (now - sent[1]) * c.timers.srtt.den > 3 * c.timers.srtt.num

\* the time waited exceeds one second and does not exceed 1.5 * srtt
WaitedTooLittle(c) ==
    LET sent == FirstSendTime(c)
    IN  /\ sent # <<>>
        /\ now - sent[1] > Second
        /\ 2 * (now - sent[1]) * c.timers.srtt.den <= 3 * c.timers.srtt.num

\* C12: unless the time waited exceeds 1 s and exceeds 1.5 * srtt, on_tick
\* sends nothing again: every segment it emits starts at snd.nxt or later,
\* none at a sequence number already sent.
C12_RetransmitGate ==
    (panicked = "" /\ ~WaitedLongEnough(conn)) =>
        LET r == on_tick(Start(conn))
        IN  r.panic = "" =>
                \A i \in DOMAIN r.nic :
                    ~wrapping_lt(r.nic[i].seq, conn.send.nxt)

\* more than a second and no more than 1.5 * srtt have passed since a segment
\* that is still unacknowledged was sent, bytes are in flight, and on_tick
\* returns without sending them again
C12_Witness ==
    /\ panicked = ""
    /\ conn.state \notin {"FinWait2", "TimeWait", "Closed"}
    /\ WaitedTooLittle(conn)
    /\ conn.send.una # conn.send.iss
    /\ conn.unacked # <<>>
    /\ wrapping_lt(conn.send.una, conn.send.nxt)
    /\ on_tick(Start(conn)).panic = ""
    /\ on_tick(Start(conn)).nic = <<>>

\* x is one of the rcv.wnd sequence numbers from rcv.nxt on, modulo 2^32
InRcvWindow(c, x) == ULt(wrapping_sub(x, c.recv.nxt), c.recv.wnd)

\* the segment's length in sequence numbers: payload, SYN and FIN
SeqLen(seg) ==
    Len(seg.data) + (IF seg.fin THEN 1 ELSE 0) + (IF seg.syn THEN 1 ELSE 0)

\* the acceptability table of RFC 793
RfcAcceptable(c, seg) ==
    CASE SeqLen(seg) = 0 /\ c.recv.wnd = 0 -> seg.seqn = c.recv.nxt
      [] SeqLen(seg) = 0 /\ c.recv.wnd > 0 -> InRcvWindow(c, seg.seqn)
      [] SeqLen(seg) > 0 /\ c.recv.wnd = 0 -> FALSE
      [] SeqLen(seg) > 0 /\ c.recv.wnd > 0 ->
            \/ InRcvWindow(c, seg.seqn)
            \/ InRcvWindow(c, wrapping_add(seg.seqn, SeqLen(seg) - 1))

\* C13: on_packet's acceptability test is the table of RFC 793, for every
\* seg.seq, segment length, rcv.nxt and rcv.wnd, across the wrap too.
C13_AcceptabilityTable ==
    \A seg \in RcvSegments(conn) : okay(conn, seg) = RfcAcceptable(conn, seg)

\* a connection that has taken in data and whose window straddles the wrap is
\* handed a segment that starts before the window and ends in it, and one
\* that starts at the window's end: on_packet accepts the first
C13_Witness ==
    /\ panicked = ""
    /\ conn.incoming # <<>>
    /\ conn.recv.wnd > 0
    /\ conn.recv.nxt < 0
    /\ wrapping_add(conn.recv.nxt, conn.recv.wnd) >= 0
    /\ \E seg \in RcvSegments(conn) :
          /\ SeqLen(seg) > 1
          /\ ~InRcvWindow(conn, seg.seqn)
          /\ okay(conn, seg)
          /\ on_packet(Start(conn), seg).c.recv.nxt # conn.recv.nxt
    /\ \E seg \in RcvSegments(conn) :
          /\ seg.seqn = wrapping_add(conn.recv.nxt, conn.recv.wnd)
          /\ ~okay(conn, seg)

\* the fields a rejected segment must leave alone
Frame(c) ==
    <<c.state, c.recv.nxt, c.send.una, c.send.nxt, c.closed_at, c.incoming,
      c.unacked>>

\* C14: in every state, a segment that fails the acceptability test makes
\* on_packet return normally having sent exactly one segment, without
\* payload, with seq = snd.nxt and ack = rcv.nxt, and leaves State, rcv.nxt,
\* snd.una, snd.nxt, closed_at, incoming and unacked as they were.
C14_RejectedSegment ==
    panicked = "" =>
        \A seg \in Segments(conn) :
            ~okay(conn, seg) =>
                LET r == on_packet(Start(conn), seg)
                IN  /\ r.panic = ""
                    /\ Len(r.nic) = 1
                    /\ r.nic[1].payload = <<>>
                    /\ r.nic[1].seq = conn.send.nxt
                    /\ r.nic[1].ack = conn.recv.nxt
                    /\ Frame(r.c) = Frame(conn)

\* the longest payload tried twice
MaxDupLen == 3

\* data segments around rcv.nxt, without SYN or FIN
DataSegments(c) ==
    {[seqn |-> s, ackn |-> c.send.una, syn |-> FALSE, fin |-> FALSE,
      ack |-> TRUE, data |-> PeerData(c, s, n)] :
        s \in SeqChoices(c), n \in 1..MaxDupLen}

\* on_packet takes the payload of seg in: the state is one in which data is
\* received, the segment is acceptable and the call returns
TakesData(c, seg) ==
    /\ c.state \in {"Estab", "FinWait1", "FinWait2"}
    /\ okay(c, seg)
    /\ on_packet(Start(c), seg).panic = ""

\* C15: a data segment processed in Estab, FinWait1 or FinWait2 and then
\* received again (same seg.seq, same payload) makes on_packet send one
\* segment without payload that acknowledges rcv.nxt, and leaves incoming and
\* rcv.nxt as the first copy left them, whatever the payload's length.
C15_DuplicateData ==
    panicked = "" =>
        \A seg \in DataSegments(conn) :
            TakesData(conn, seg) =>
                LET first == on_packet(Start(conn), seg).c
                    r == on_packet(Start(first), seg)
                IN  /\ r.panic = ""
                    /\ Len(r.nic) = 1
                    /\ r.nic[1].payload = <<>>
                    /\ r.nic[1].ack = first.recv.nxt
                    /\ r.c.incoming = first.incoming
                    /\ r.c.recv.nxt = first.recv.nxt

\* C16: an acceptable segment that carries nothing but an ACK whose ackn is
\* not in (snd.una, snd.nxt], ackn = snd.una included, leaves unacked,
\* send_times, srtt and snd.una as they were, and sends nothing.
C16_AckOutOfRange ==
    panicked = "" =>
        \A seg \in BareAcks(conn) :
            (okay(conn, seg) /\ ~InAckRange(conn, seg.ackn)) =>
                LET r == on_packet(Start(conn), seg)
                IN  /\ r.panic = ""
                    /\ r.nic = <<>>
                    /\ r.c.unacked = conn.unacked
                    /\ r.c.timers = conn.timers
                    /\ r.c.send = conn.send

\* bytes and a send time are outstanding, and both a duplicate ACK and an ACK
\* beyond snd.nxt are processed
C16_Witness ==
    /\ panicked = ""
    /\ conn.unacked # <<>>
    /\ conn.timers.send_times # <<>>
    /\ conn.send.una # conn.send.nxt
    /\ \A a \in {conn.send.una, wrapping_add(conn.send.nxt, 1)} :
          \E seg \in BareAcks(conn) :
              /\ seg.ackn = a
              /\ okay(conn, seg)
              /\ ~InAckRange(conn, a)
              /\ on_packet(Start(conn), seg).c.unacked = conn.unacked

\* the state close() is said to leave, and what it is said to return
StateAfterClose(st) ==
    IF st \in {"SynRcvd", "Estab"} THEN "FinWait1"
    ELSE IF st = "CloseWait" THEN "LastAck"
    ELSE st

ReturnOfClose(st) ==
    IF st \in {"Listen", "SynSent", "TimeWait", "Closed"} THEN "NotConnected"
    ELSE "Ok"

\* C18: close() sets closed; it moves SynRcvd and Estab to FinWait1 and
\* CloseWait to LastAck, succeeds without a move in FinWait1, FinWait2,
\* Closing and LastAck, and fails with NotConnected without a move in Listen,
\* SynSent, TimeWait and Closed; the sequence spaces, the queues and every
\* other field are left as they were.
C18_Close ==
    LET res == close(conn)
    IN  /\ res.c.closed
        /\ res.c.state = StateAfterClose(conn.state)
        /\ res.ret = ReturnOfClose(conn.state)
        /\ res.c = [conn EXCEPT !.closed = TRUE,
                                !.state = StateAfterClose(conn.state)]

\* close() has just failed in TimeWait, on a connection whose application had
\* not closed before, with bytes still queued
C18_Witness ==
    /\ ret = "NotConnected"
    /\ conn.state = "TimeWait"
    /\ conn.closed
    /\ conn.closed_at = <<>>
    /\ conn.unacked # <<>>
    /\ nic = <<>>

\* the peer's FIN has been taken in: a FIN is taken in only by the moves to
\* Closing and TimeWait, and Closing is left only for TimeWait
PeerFinReceived(c) == c.state \in {"Closing", "TimeWait"}

\* C19: availability() has READ exactly when the peer's FIN has been received
\* or incoming holds bytes, and WRITE exactly when the application has called
\* close (closed = true) or unacked holds bytes.
C19_Availability ==
    panicked = "" =>
        /\ ("READ" \in availability(conn))
               <=> (PeerFinReceived(conn) \/ conn.incoming # <<>>)
        /\ ("WRITE" \in availability(conn))
               <=> (conn.closed \/ conn.unacked # <<>>)

\* the state in which on_packet comes to the FIN of seg: the ACK of the segment
\* has been processed by then
StateAtFin(c, seg) == AckFin(AckData(AckSynRcvd(c, seg.ackn), seg.ackn)).state

\* rcv.nxt once the payload of seg has been taken in
NxtAfterPayload(c, seg) ==
    IF seg.data = <<>> THEN c.recv.nxt
    ELSE wrapping_add(seg.seqn, Len(seg.data))

\* C20: an acceptable segment with ACK and FIN that on_packet processes in
\* Estab, FinWait1 or FinWait2 leaves rcv.nxt one beyond its payload, sends a
\* segment without payload that acknowledges the new rcv.nxt, and moves Estab
\* to TimeWait, FinWait1 to Closing and FinWait2 to TimeWait; in any other
\* state the FIN is ignored: on_packet returns and rcv.nxt does not count it.
C20_PeerFin ==
    panicked = "" =>
        \A seg \in Segments(conn) :
            (seg.fin /\ seg.ack /\ okay(conn, seg)) =>
                LET r == on_packet(Start(conn), seg)
                    at == StateAtFin(conn, seg)
                    last == r.nic[Len(r.nic)]
                IN  IF at \in {"Estab", "FinWait1", "FinWait2"}
                    THEN /\ r.panic = ""
                         /\ r.c.recv.nxt = wrapping_add(NxtAfterPayload(conn, seg), 1)
                         /\ r.nic # <<>>
                         /\ last.payload = <<>>
                         /\ last.ack = r.c.recv.nxt
                         /\ r.c.state = CASE at = "Estab" -> "TimeWait"
                                          [] at = "FinWait1" -> "Closing"
                                          [] at = "FinWait2" -> "TimeWait"
                    ELSE /\ r.panic = ""
                         /\ r.c.recv.nxt = conn.recv.nxt
                         /\ r.c.state = at

\* an acceptable segment with payload or FIN that starts beyond rcv.nxt
OutOfOrder(c, seg) ==
    /\ okay(c, seg)
    /\ seg.ack /\ ~seg.syn
    /\ seg.data # <<>> \/ seg.fin
    /\ wrapping_lt(c.recv.nxt, seg.seqn)

\* q holds consecutive bytes of the peer's stream
GapFree(q) == \A i \in 1..(Len(q) - 1) : q[i + 1] = q[i] + 1

\* C21: an acceptable segment with payload or FIN whose seg.seq lies beyond
\* rcv.nxt is dropped: on_packet returns (the assertion on unread_data_at does
\* not fail) and leaves incoming, rcv.nxt and State as the segment's ACK left
\* them; incoming holds consecutive bytes of the peer's stream.
C21_OutOfOrderDropped ==
    panicked = "" =>
        /\ GapFree(conn.incoming)
        /\ \A seg \in Segments(conn) :
              OutOfOrder(conn, seg) =>
                  LET r == on_packet(Start(conn), seg)
                  IN  /\ r.panic = ""
                      /\ r.c.incoming = conn.incoming
                      /\ r.c.recv.nxt = conn.recv.nxt
                      /\ r.c.state = StateAtFin(conn, seg)

\* every send time on record is more than one second and more than
\* 1.5 * srtt old: whatever on_tick takes as the time of the last
\* transmission, the retransmission is due
Overdue(c) ==
    /\ c.timers.send_times # <<>>
    /\ \A k \in DOMAIN c.timers.send_times :
          LET waited == now - c.timers.send_times[k]
          IN  /\ waited > Second
              /\ 2 * waited * c.timers.srtt.den > 3 * c.timers.srtt.num

\* sequence numbers of data or of the FIN are out and not acknowledged, in a
\* state in which on_tick acts
Unacknowledged(c) ==
    /\ c.send.una # c.send.iss
    /\ c.send.una # c.send.nxt
    /\ c.state \notin {"FinWait2", "TimeWait", "Closed"}

\* C22: with data or the FIN alone out and not acknowledged, in a state other
\* than FinWait2, TimeWait and Closed, an on_tick called once the
\* retransmission is due sends a segment that starts at snd.una and carries
\* payload or the FIN, whatever ACKs were processed before.
C22_Retransmits ==
    (panicked = "" /\ Unacknowledged(conn) /\ Overdue(conn)) =>
        LET r == on_tick(Start(conn))
        IN  /\ r.panic = ""
            /\ \E i \in DOMAIN r.nic :
                  /\ r.nic[i].seq = conn.send.una
                  /\ r.nic[i].payload # <<>> \/ r.nic[i].fin

\* C23: once closed_at is set, every segment sent with the FIN flag ends at
\* closed_at (seq + payload length = closed_at), every segment sent at
\* closed_at + 1 carries neither payload nor FIN, and snd.nxt is not beyond
\* closed_at + 1.
C23_FinOneSlot ==
    (panicked = "" /\ conn.closed_at # <<>>) =>
        LET fin_seq == conn.closed_at[1]
        IN  /\ \A i \in DOMAIN nic :
                  /\ nic[i].fin =>
                        wrapping_add(nic[i].seq, Len(nic[i].payload)) = fin_seq
                  /\ nic[i].seq = wrapping_add(fin_seq, 1) =>
                        (nic[i].payload = <<>> /\ ~nic[i].fin)
            /\ ~wrapping_lt(wrapping_add(fin_seq, 1), conn.send.nxt)

====
